---- MODULE Spec2Model ----
(***************************************************************************)
(* BlueKing brain: the submission queue, the Chat servicer, the Brain flow *)
(* loop (intake -> route -> handle -> continue), the background            *)
(* _process_submission tasks with their tracking set, the BrainState       *)
(* context variable, and main's coordinated shutdown of the three          *)
(* top-level tasks, all on one asyncio event loop.  One action is one run  *)
(* of a coroutine from one suspension point to the next.                   *)
(*                                                                         *)
(* Strings are sequences of chunks: "" is << >>, and an f-string is the    *)
(* concatenation of its literal and its interpolated parts.                *)
(***************************************************************************)
EXTENDS Integers, Sequences, FiniteSets, TLC

\* Number of Chat calls the clients issue while the services run.
NCalls == 2
\* Number of Chat calls the clients issue in the runs that start and stop the
\* services.
NShutdownCalls == 1
\* Number of times a holder of the queue other than main puts the sentinel.
MaxHostPuts == 1

Calls == 1..NCalls
ShutdownCalls == 1..NShutdownCalls
\* The ShutdownSignal: None on a queue of BrainSubmission | None.
None == 0

EmptyStr == << >>
UserNames == <<"alice", "bob", "carol", "dave", "erin">>
Username(c) == <<UserNames[c]>>
Messages == {EmptyStr, <<"hello">>}

\* Exceptions a processing step can raise.
ExcPut == <<"RuntimeError: put failed">>
ExcConstruct == <<"ExampleFlow construction failed">>
ExcPipeline == <<"pipeline failed">>
StartFailures == {"username", "message", "construct"}

VARIABLES
    queue,          \* asyncio.Queue[BrainSubmission | None]: call ids and None
    chat,           \* position of each Chat handler
    event,          \* the ChatEvent of each call: [username, message]
    future,         \* the reply handle of each call's submission
    rpc,            \* what each Chat call gave its caller
    server,         \* the gRPC server: "init", "serving", "stopped"
    brainPc,        \* position of the Brain flow
    submission,     \* what the last intake returned
    stopCause,      \* why intake returned None
    waited,         \* the copy of _tasks that _await_pending_tasks waits on
    waits,          \* how many times _await_pending_tasks has suspended
    tasks,          \* Brain._tasks
    proc,           \* position of each _process_submission task
    taskExc,        \* the exception a task ended with
    removed,        \* the tasks whose _remove callback has run
    state,          \* Brain.state, the one BrainState
    brain_state,    \* the _brain_state context variable, per task context
    flow,           \* each task's ExampleFlow state: [prompt, echo]
    mainPc,         \* position of main
    done,           \* the `done` set main's wait returned
    cancelReq,      \* top-level tasks with a cancel() not yet delivered
    inboundPc,      \* position of serve_brain
    outboundPc,     \* position of outbound_connection
    outbound_stub,  \* the _outbound_stub context variable in the keeper's context
    shutdown_event, \* the asyncio.Event main shares with serve_brain
    hostPuts,       \* sentinels put by a holder of the queue other than main
    closed,         \* asyncio.run has torn the loop down
    inFlightAtShutdown, \* the submissions in flight when main began the shutdown
    task_stub,      \* the _outbound_stub context variable in each processing task's context
    sendOut,        \* what each task's send_chat_message did, and the keeper's position then
    gestalt_endpoint_override, \* the module global configure() stores
    env_endpoint,   \* os.environ's GESTALT_GRPC_ENDPOINT
    endpoint,       \* the argument of the last outbound_connection call
    target,         \* the address the last outbound_connection call resolved
    configured,     \* the argument of the last configure() call
    db,             \* the LMDB database: encoded key -> stored bytes
    dbOut,          \* the last LmdbDict operation and its outcome
    dbPrev,         \* the LmdbDict operation before it
    puts,           \* every item put on the queue, in the order of the puts
    handled,        \* the submissions handle_submission was called with, in order
    logged,         \* the tasks whose _remove logged "Brain event task raised"
    helpers,        \* the two tasks serve_brain creates for its wait
    trackedAtSignal \* Brain._tasks when intake took the sentinel

vars == <<queue, chat, event, future, rpc, server, brainPc, submission, stopCause,
          waited, waits, tasks, proc, taskExc, removed, state, brain_state, flow,
          mainPc, done, cancelReq, inboundPc, outboundPc, outbound_stub,
          shutdown_event, hostPuts, closed, inFlightAtShutdown,
          task_stub, sendOut, gestalt_endpoint_override, env_endpoint, endpoint,
          target, configured, db, dbOut, dbPrev, puts, handled, logged, helpers,
          trackedAtSignal>>

chatVars == <<chat, event, rpc>>
brainVars == <<brainPc, submission, stopCause, waited, waits, trackedAtSignal>>
taskVars == <<tasks, proc, taskExc, removed, brain_state, flow, logged>>
mainVars == <<mainPc, done, cancelReq, shutdown_event, closed, inFlightAtShutdown>>
actorVars == <<inboundPc, outboundPc, outbound_stub, server, helpers>>
orderVars == <<puts, handled>>
sendVars == <<task_stub, sendOut>>
endpointVars == <<gestalt_endpoint_override, env_endpoint, endpoint, target, configured>>
dbVars == <<db, dbOut, dbPrev>>
libVars == <<sendVars, endpointVars, dbVars>>

----
\* asyncio.Future
PendingFuture == [st |-> "pending", val |-> EmptyStr, invalid |-> FALSE]
NoFuture == [st |-> "none", val |-> EmptyStr, invalid |-> FALSE]
FutureDone(f) == f.st \in {"result", "exception", "cancelled"}
\* set_result / set_exception raise InvalidStateError on a future that is done.
SetResult(f, v) ==
    IF f.st = "pending" THEN [f EXCEPT !.st = "result", !.val = v]
    ELSE [f EXCEPT !.invalid = TRUE]
SetException(f, e) ==
    IF f.st = "pending" THEN [f EXCEPT !.st = "exception", !.val = e]
    ELSE [f EXCEPT !.invalid = TRUE]
\* cancel() is a no-op on a future that is done.
CancelFuture(f) == IF f.st = "pending" THEN [f EXCEPT !.st = "cancelled"] ELSE f

\* asyncio.Queue (unbounded): put appends and never suspends.
QueuePutDropped(q, item) == q
\* A queue that hands out the newest item first.
QueuePutFront(q, item) == <<item>> \o q
QueuePut(q, item) == Append(q, item)

InQueue(c) == \E i \in 1..Len(queue) : queue[i] = c
Occurrences(c) == Cardinality({i \in 1..Len(queue) : queue[i] = c})

\* What a Chat call gives its caller.
NoOutcome == [kind |-> "none", code |-> "", text |-> EmptyStr]
ChatResponse(reply) == [kind |-> "response", code |-> "OK", text |-> reply]
InternalError == [kind |-> "error", code |-> "INTERNAL", text |-> <<"Internal server error">>]
\* A cancelled call that is given the failure status.
CancelledAsInternal == [kind |-> "error", code |-> "INTERNAL", text |-> <<"Internal server error">>]
CancelledCall == [kind |-> "cancelled", code |-> "", text |-> EmptyStr]
\* The status of a call whose handler raised is sent by grpc.aio: the code the
\* handler set, with details that grpc.aio formats from the exception raised.
UnexpectedError(exc) ==
    [kind |-> "error", code |-> "INTERNAL", text |-> <<"Unexpected ">> \o exc]
\* What the caller of a Chat call whose handler raised `exc` can be given.
RaisedStatus(exc) == {InternalError, UnexpectedError(exc)}

----
\* A `str | None`: None, or a str, which may be empty.
Nothing == [some |-> FALSE, s |-> ""]
Some(s) == [some |-> TRUE, s |-> s]
\* Python's truth value of a `str | None`, and `a or b`.
Truthy(o) == o.some /\ o.s # ""
Or(a, b) == IF Truthy(a) THEN a ELSE b
\* os.getenv(name, default): the default only when the variable is not set.
Getenv(env, default) == IF env.some THEN env ELSE Some(default)

DEFAULT_GESTALT_ENDPOINT == "127.0.0.1:50052"
\* The values the endpoint argument, configure()'s argument and the
\* environment variable are drawn from.
EndpointArgs == {Nothing, Some(""), Some("arg:1"), Some("arg:2")}
ConfigureArgs == {Nothing, Some(""), Some("cfg:1"), Some("cfg:2")}
EnvValues == {Nothing, Some(""), Some("env:1"), Some("env:2")}

\* A resolution that looks at the environment before the stored override.
ResolveTargetEnvFirst(ep, ov, env) ==
    Or(ep, IF env.some THEN env ELSE Or(ov, Some(DEFAULT_GESTALT_ENDPOINT)))
\* outbound_connection: endpoint or _gestalt_endpoint_override or os.getenv(...).
ResolveTarget(ep, ov, env) == Or(ep, Or(ov, Getenv(env, DEFAULT_GESTALT_ENDPOINT)))
\* configure: `if gestalt_endpoint:` stores it, else nothing changes.
ConfigureOverride(ov, x) == IF Truthy(x) THEN x ELSE ov

----
\* The _outbound_stub context variable in the Brain flow's context: its default.
\* main sets nothing, brain_task's context is a copy of main's, and the flow
\* sets nothing either.
BrainContextSharesKeeper == outbound_stub
BrainContextStub == "None"
\* asyncio.create_task runs the coroutine in a copy of the current context.
CopyContext(v) == v
\* _get_outbound_stub: RuntimeError when the variable is None in the caller's
\* context, else the stub; send_chat_message then sends the RPC on it.
SendOutcome(v) == IF v = "None" THEN "unavailable" ELSE "sent"
NoSend == [out |-> "none", keeper |-> "none"]

----
\* LmdbDict. A key is any object: str(key).encode() is what is stored.
KeyObjects ==
    { [kind |-> "str", text |-> "username"], [kind |-> "str", text |-> "db"],
      [kind |-> "str", text |-> "1"], [kind |-> "int", text |-> "1"] }
Values == {"alice", "hello"}
Str(k) == k.text
Encode(t) == <<"utf-8", t>>
Decode(b) == b[2]
EncodeKey(k) == Encode(Str(k))
EncodedKeys == {EncodeKey(k) : k \in KeyObjects}
\* pickle.dumps / pickle.loads
PickleDumps(v) == <<"pickle", v>>
PickleLoads(b) == b[2]
\* txn.get returns None for a key that is not stored.
Missing == << >>
TxnGet(d, k) == d[k]
\* A put that writes nothing.
TxnPutNothing(d, k, v) == d
TxnPut(d, k, v) == [d EXCEPT ![k] = v]
TxnDelete(d, k) == [d EXCEPT ![k] = Missing]
StoredKeys(d) == {k \in DOMAIN d : d[k] # Missing}
\* The cursor walks the stored keys, each once.
RECURSIVE CursorWalk(_)
CursorWalk(ks) ==
    IF ks = {} THEN << >>
    ELSE LET k == CHOOSE x \in ks : TRUE IN <<k>> \o CursorWalk(ks \ {k})
\* __iter__: yield k.decode() for each key of the cursor.
IterKeys(d) == [i \in 1..Cardinality(StoredKeys(d)) |-> Decode(CursorWalk(StoredKeys(d))[i])]
\* __getattr__(name): self[name], KeyError turned into AttributeError.
GetAttr(d, name) ==
    IF TxnGet(d, Encode(name)) = Missing THEN "AttributeError" ELSE "value"
\* __len__: txn.stat(self.db)["entries"]. The instance has _db but no db, so
\* self.db goes through __getattr__: AttributeError when no key "db" is
\* stored; otherwise the unpickled value stored under "db" is handed to
\* txn.stat, which rejects what is not a database handle.
LenOutcome(d) ==
    IF GetAttr(d, "db") = "AttributeError" THEN "AttributeError" ELSE "TypeError"
NoKey == [kind |-> "none", text |-> ""]
DbNoOp == [op |-> "none", key |-> NoKey, arg |-> "", kind |-> "none",
           val |-> "", n |-> 0, keys |-> << >>]

----
\* serve_brain's helper tasks: `termination` awaits server.wait_for_termination()
\* and `shutdown_task` awaits shutdown.wait(); neither exists before the wait.
NoHelpers == [termination |-> "none", shutdown_task |-> "none"]
HelpersCreated == [termination |-> "pending", shutdown_task |-> "pending"]
\* The except branch cancels neither helper: `termination` ends when the server
\* has terminated, `shutdown_task` ends only if the event has been set.
HelpersAfterCancel(ev) ==
    [termination |-> "done", shutdown_task |-> IF ev THEN "done" ELSE "pending"]
\* The first-completed wait returned {shutdown_task}: `termination` is pending
\* and is cancelled.
HelpersAfterFlag == [termination |-> "cancelled", shutdown_task |-> "done"]
\* The first-completed wait returned {termination}: `shutdown_task` is pending
\* and is cancelled, unless the event was set as well.
HelpersAfterTermination(ev) ==
    [termination |-> "done", shutdown_task |-> IF ev THEN "done" ELSE "cancelled"]
\* What the server is doing when a cancellation ends `await server.start()`:
\* the task had not run yet and no server exists, or it was suspended inside
\* start() and the server it started goes on serving.
ServerAfterCancelledStart == {"init", "serving"}
\* How a server that terminates by itself ends wait_for_termination: it
\* returns, or it raises the exception the server crashed with.
Terminations == {"clean", "crash"}

----
\* The outbound lookups, the endpoint settings and the mapping before any use.
LibInit ==
    /\ task_stub = [c \in Calls |-> "None"]
    /\ sendOut = [c \in Calls |-> NoSend]
    /\ gestalt_endpoint_override = Nothing
    /\ env_endpoint = Nothing
    /\ endpoint = Nothing
    /\ target = Nothing
    /\ configured = Nothing
    /\ db = [k \in EncodedKeys |-> Missing]
    /\ dbOut = DbNoOp
    /\ dbPrev = DbNoOp

\* main has created the three top-level tasks; none has run yet.
CoreInit ==
    /\ queue = << >>
    /\ chat = [c \in Calls |-> "idle"]
    /\ event = [c \in Calls |-> [username |-> Username(c), message |-> EmptyStr]]
    /\ future = [c \in Calls |-> NoFuture]
    /\ rpc = [c \in Calls |-> NoOutcome]
    /\ server = "init"
    /\ brainPc = "intake"
    /\ submission = None
    /\ stopCause = "none"
    /\ waited = {}
    /\ waits = 0
    /\ trackedAtSignal = {}
    /\ tasks = {}
    /\ proc = [c \in Calls |-> "none"]
    /\ taskExc = [c \in Calls |-> EmptyStr]
    /\ removed = {}
    /\ state = [username |-> EmptyStr, message |-> EmptyStr, reply |-> EmptyStr]
    /\ brain_state = [c \in Calls |-> "None"]
    /\ flow = [c \in Calls |-> [prompt |-> EmptyStr, echo |-> EmptyStr]]
    /\ mainPc = "wait"
    /\ done = {}
    /\ cancelReq = {}
    /\ inboundPc = "start"
    /\ outboundPc = "start"
    /\ outbound_stub = "None"
    /\ shutdown_event = FALSE
    /\ hostPuts = 0
    /\ closed = FALSE
    /\ inFlightAtShutdown = {}
    /\ puts = << >>
    /\ handled = << >>
    /\ logged = {}
    /\ helpers = NoHelpers

Init == CoreInit /\ LibInit

----
\* _BrainServicer.Chat up to `await future`: the future, the submission, the put.
Chat(c, m) ==
    /\ server = "serving"
    /\ ~closed
    /\ chat[c] = "idle"
    /\ \A d \in Calls : d < c => chat[d] # "idle"
    /\ event' = [event EXCEPT ![c] = [username |-> Username(c), message |-> m]]
    /\ future' = [future EXCEPT ![c] = PendingFuture]
    /\ queue' = QueuePut(queue, c)
    /\ chat' = [chat EXCEPT ![c] = "waiting"]
    /\ UNCHANGED <<rpc, state, hostPuts>>
    /\ UNCHANGED <<brainVars, taskVars, mainVars, actorVars>>
    /\ UNCHANGED libVars
    /\ puts' = Append(puts, c)
    /\ UNCHANGED handled

\* `reply = await future` returns: the ChatResponse.
ChatReturn(c) ==
    /\ chat[c] = "waiting"
    /\ future[c].st = "result"
    /\ chat' = [chat EXCEPT ![c] = "returned"]
    /\ rpc' = [rpc EXCEPT ![c] = ChatResponse(future[c].val)]
    /\ UNCHANGED <<queue, event, future, state, hostPuts>>
    /\ UNCHANGED <<brainVars, taskVars, mainVars, actorVars>>
    /\ UNCHANGED libVars
    /\ UNCHANGED orderVars

\* `await future` raises the exception set on the handle: set_details,
\* set_code(INTERNAL), and the exception is re-raised to the server.
ChatFail(c) ==
    /\ chat[c] = "waiting"
    /\ future[c].st = "exception"
    /\ chat' = [chat EXCEPT ![c] = "error"]
    /\ \E status \in RaisedStatus(future[c].val) : rpc' = [rpc EXCEPT ![c] = status]
    /\ UNCHANGED <<queue, event, future, state, hostPuts>>
    /\ UNCHANGED <<brainVars, taskVars, mainVars, actorVars>>
    /\ UNCHANGED libVars
    /\ UNCHANGED orderVars

\* The caller goes away: the handler task is cancelled while it awaits the
\* future, which cancels the future when it is still pending.
ChatCancelled(c) ==
    /\ chat[c] = "waiting"
    /\ server = "serving"
    /\ chat' = [chat EXCEPT ![c] = "cancelled"]
    /\ rpc' = [rpc EXCEPT ![c] = CancelledCall]
    /\ future' = [future EXCEPT ![c] = CancelFuture(@)]
    /\ UNCHANGED <<queue, event, state, hostPuts>>
    /\ UNCHANGED <<brainVars, taskVars, mainVars, actorVars>>
    /\ UNCHANGED libVars
    /\ UNCHANGED orderVars

----
\* serve_brain: server.start() succeeds; the two helper tasks are created and
\* serve_brain waits for the first of them.
ServeStart ==
    /\ inboundPc = "start"
    /\ "inbound" \notin cancelReq
    /\ inboundPc' = "wait"
    /\ server' = "serving"
    /\ helpers' = HelpersCreated
    /\ UNCHANGED <<queue, future, state, hostPuts, outboundPc, outbound_stub>>
    /\ UNCHANGED <<chatVars, brainVars, taskVars, mainVars>>
    /\ UNCHANGED libVars
    /\ UNCHANGED orderVars

\* serve_brain: add_insecure_port / server.start() raises, outside the try.
ServeStartFail ==
    /\ inboundPc = "start"
    /\ "inbound" \notin cancelReq
    /\ inboundPc' = "failed"
    /\ UNCHANGED <<queue, future, state, hostPuts, outboundPc, outbound_stub, server, helpers>>
    /\ UNCHANGED <<chatVars, brainVars, taskVars, mainVars>>
    /\ UNCHANGED libVars
    /\ UNCHANGED orderVars

\* serve_brain cancelled before server.start() has returned: outside the try,
\* so nothing stops the server.
ServeCancelledAtStart ==
    /\ inboundPc = "start"
    /\ "inbound" \in cancelReq
    /\ inboundPc' = "cancelled"
    /\ cancelReq' = cancelReq \ {"inbound"}
    /\ \E s \in ServerAfterCancelledStart : server' = s
    /\ UNCHANGED <<queue, future, state, hostPuts, outboundPc, outbound_stub, helpers>>
    /\ UNCHANGED <<chatVars, brainVars, taskVars>>
    /\ UNCHANGED <<mainPc, done, shutdown_event, closed, inFlightAtShutdown>>
    /\ UNCHANGED libVars
    /\ UNCHANGED orderVars

\* A stop that aborts no call: every handler is left as it is.
CancelHandlersKeepsCalls(ch) == ch

\* Every Chat handler that awaits its future is cancelled (the server aborts
\* its active RPCs on stop(0); asyncio.run cancels what is left on the loop),
\* and with the handler its future.
CancelHandlers(ch) == [c \in Calls |-> IF ch[c] = "waiting" THEN "cancelled" ELSE ch[c]]

\* How serve_brain ends once its wait is over: the except branch stops the
\* server and falls through to the finally, as the shutdown branch does.
ServeEnd(cancelled) == "done"

\* serve_brain's wait ends, by cancellation (the except branch) or by the
\* shutdown event; either way server.stop(0), wait_for_termination, and the
\* function returns.
ServeStop ==
    /\ inboundPc = "wait"
    /\ "inbound" \in cancelReq \/ shutdown_event
    /\ inboundPc' = ServeEnd("inbound" \in cancelReq)
    /\ cancelReq' = cancelReq \ {"inbound"}
    /\ server' = "stopped"
    /\ helpers' = IF "inbound" \in cancelReq THEN HelpersAfterCancel(shutdown_event)
                  ELSE HelpersAfterFlag
    /\ chat' = CancelHandlers(chat)
    /\ rpc' = [c \in Calls |-> IF chat'[c] # chat[c] THEN CancelledCall ELSE rpc[c]]
    /\ future' = [c \in Calls |->
                    IF chat'[c] # chat[c] THEN CancelFuture(future[c]) ELSE future[c]]
    /\ UNCHANGED <<queue, event, state, hostPuts, outboundPc, outbound_stub>>
    /\ UNCHANGED <<brainVars, taskVars>>
    /\ UNCHANGED <<mainPc, done, shutdown_event, closed, inFlightAtShutdown>>
    /\ UNCHANGED libVars
    /\ UNCHANGED orderVars

\* The server terminates by itself while serve_brain waits: the wait returns
\* {termination}, shutdown_task is cancelled, and task.result() returns, after
\* which stop(0) and wait_for_termination return at once, or raises the
\* server's crash, which is no CancelledError and leaves serve_brain through
\* the finally. The calls the server was serving end with it.
ServeTerminated(how) ==
    /\ inboundPc = "wait"
    /\ "inbound" \notin cancelReq
    /\ ~closed
    /\ inboundPc' = IF how = "crash" THEN "failed" ELSE ServeEnd(FALSE)
    /\ server' = "stopped"
    /\ helpers' = HelpersAfterTermination(shutdown_event)
    /\ chat' = CancelHandlers(chat)
    /\ rpc' = [c \in Calls |-> IF chat'[c] # chat[c] THEN CancelledCall ELSE rpc[c]]
    /\ future' = [c \in Calls |->
                    IF chat'[c] # chat[c] THEN CancelFuture(future[c]) ELSE future[c]]
    /\ UNCHANGED <<queue, event, state, hostPuts, outboundPc, outbound_stub>>
    /\ UNCHANGED <<brainVars, taskVars, mainVars>>
    /\ UNCHANGED libVars
    /\ UNCHANGED orderVars

----
\* outbound_connection: the channel opens, the stub is published in the
\* keeper's own context, and the keeper parks on a future nobody sets.
KeeperStart ==
    /\ outboundPc = "start"
    /\ "outbound" \notin cancelReq
    /\ outboundPc' = "parked"
    /\ outbound_stub' = "stub"
    /\ UNCHANGED <<queue, future, state, hostPuts, inboundPc, server, helpers>>
    /\ UNCHANGED <<chatVars, brainVars, taskVars, mainVars>>
    /\ UNCHANGED libVars
    /\ UNCHANGED orderVars

\* The keeper is cancelled: the finally resets the stub, the channel closes.
KeeperCancelled ==
    /\ outboundPc \in {"start", "parked"}
    /\ "outbound" \in cancelReq
    /\ outboundPc' = "cancelled"
    /\ outbound_stub' = "None"
    /\ cancelReq' = cancelReq \ {"outbound"}
    /\ UNCHANGED <<queue, future, state, hostPuts, inboundPc, server, helpers>>
    /\ UNCHANGED <<chatVars, brainVars, taskVars>>
    /\ UNCHANGED <<mainPc, done, shutdown_event, closed, inFlightAtShutdown>>
    /\ UNCHANGED libVars
    /\ UNCHANGED orderVars

----
\* A tracker that forgets the task it is given.
TrackTaskForgets(ts, t) == ts
\* A drain that waits for nothing.
PendingToAwaitNothing(ts) == {}
\* A router that treats every item as a submission.
RouteSubmissionNoStop(sub) == "process_submission"

\* Brain._track_task: self._tasks.add(task).
TrackTask(ts, t) == ts \cup {t}
\* A callback that leaves the finished task in the set.
DiscardKeeps(ts, t) == ts
\* _remove: self._tasks.discard(completed).
Discard(ts, t) == ts \ {t}
\* _await_pending_tasks: the loop waits on self._tasks.copy() while it is non-empty.
PendingToAwait(ts) == ts

\* Brain.route_submission
RouteSubmission(sub) == IF sub = None THEN "None" ELSE "process_submission"
\* A handle_submission that returns no continuation trigger.
HandleResultNone == "None"
\* Brain.handle_submission's return value.
HandleResult == "continue_intake"
\* Brain.continue_loop
ContinueLoop(result) == IF result # "continue_intake" THEN "None" ELSE "continue_intake"

BrainRuns == "brain" \notin cancelReq

\* Brain.intake: `await self._queue.get()` returns the head of the queue. On
\* None it drains the tracked tasks first (_await_pending_tasks), which
\* returns at once when there are none.
Intake ==
    /\ brainPc = "intake"
    /\ BrainRuns
    /\ queue # << >>
    /\ queue' = Tail(queue)
    /\ submission' = Head(queue)
    /\ IF Head(queue) = None
       THEN /\ stopCause' = "sentinel"
            /\ trackedAtSignal' = tasks
            /\ waited' = PendingToAwait(tasks)
            /\ brainPc' = IF waited' = {} THEN "route" ELSE "drain"
            /\ waits' = IF waited' = {} THEN waits ELSE waits + 1
       ELSE /\ brainPc' = "route"
            /\ UNCHANGED <<stopCause, waited, waits, trackedAtSignal>>
    /\ UNCHANGED <<future, state, hostPuts>>
    /\ UNCHANGED <<chatVars, taskVars, mainVars, actorVars>>
    /\ UNCHANGED libVars
    /\ UNCHANGED orderVars

\* Brain.intake: KeyboardInterrupt out of the get; None is returned, no drain.
IntakeInterrupted ==
    /\ brainPc = "intake"
    /\ BrainRuns
    /\ submission' = None
    /\ stopCause' = "interrupt"
    /\ brainPc' = "route"
    /\ UNCHANGED <<queue, future, state, hostPuts, waited, waits, trackedAtSignal>>
    /\ UNCHANGED <<chatVars, taskVars, mainVars, actorVars>>
    /\ UNCHANGED libVars
    /\ UNCHANGED orderVars

\* _await_pending_tasks: asyncio.wait(ALL_COMPLETED) returns once every waited
\* task is done; each task's _remove was registered before the wait's own
\* callback, so it has run by then. The loop re-checks self._tasks.
DrainWake ==
    /\ brainPc = "drain"
    /\ BrainRuns
    /\ waited \subseteq removed
    /\ IF tasks = {}
       THEN /\ brainPc' = "route"
            /\ waited' = {}
            /\ waits' = waits
       ELSE /\ brainPc' = "drain"
            /\ waited' = PendingToAwait(tasks)
            /\ waits' = waits + 1
    /\ UNCHANGED <<queue, future, state, hostPuts, submission, stopCause, trackedAtSignal>>
    /\ UNCHANGED <<chatVars, taskVars, mainVars, actorVars>>
    /\ UNCHANGED libVars
    /\ UNCHANGED orderVars

\* The router after intake: to handle_submission, or the flow ends.
Route ==
    /\ brainPc = "route"
    /\ BrainRuns
    /\ brainPc' = IF RouteSubmission(submission) = "process_submission"
                  THEN "handle" ELSE "stop"
    /\ UNCHANGED <<queue, future, state, hostPuts, submission, stopCause, waited, waits>>
    /\ UNCHANGED trackedAtSignal
    /\ UNCHANGED <<chatVars, taskVars, mainVars, actorVars>>
    /\ UNCHANGED libVars
    /\ UNCHANGED orderVars

\* Brain.handle_submission: create_task and _track_task in one step, no await;
\* the new task starts in a copy of the Brain's context. The router
\* continue_loop then sends the flow back to intake.
Handle ==
    /\ brainPc = "handle"
    /\ BrainRuns
    /\ submission \in Calls
    /\ proc' = [proc EXCEPT ![submission] = "ready"]
    /\ tasks' = TrackTask(tasks, submission)
    /\ task_stub' = [task_stub EXCEPT ![submission] = CopyContext(BrainContextStub)]
    /\ brainPc' = IF ContinueLoop(HandleResult) = "continue_intake"
                  THEN "intake" ELSE "stop"
    /\ UNCHANGED <<queue, future, state, hostPuts, submission, stopCause, waited, waits>>
    /\ UNCHANGED trackedAtSignal
    /\ UNCHANGED <<taskExc, removed, brain_state, flow, logged>>
    /\ UNCHANGED <<chatVars, mainVars, actorVars>>
    /\ UNCHANGED <<sendOut, endpointVars, dbVars>>
    /\ handled' = Append(handled, submission)
    /\ UNCHANGED puts

\* The Brain task is cancelled at the suspension point it is at.
BrainCancelled ==
    /\ "brain" \in cancelReq
    /\ brainPc \notin {"stop", "cancelled"}
    /\ brainPc' = "cancelled"
    /\ cancelReq' = cancelReq \ {"brain"}
    /\ UNCHANGED <<queue, future, state, hostPuts, submission, stopCause, waited, waits>>
    /\ UNCHANGED trackedAtSignal
    /\ UNCHANGED <<chatVars, taskVars, actorVars>>
    /\ UNCHANGED <<mainPc, done, shutdown_event, closed, inFlightAtShutdown>>
    /\ UNCHANGED libVars
    /\ UNCHANGED orderVars

----
\* The prompt handed to the pipeline: self.state.message or "No message provided".
Prompt(st) == IF st.message # EmptyStr THEN st.message ELSE <<"No message provided">>
\* ExampleFlow.pick_prompt: the payload's prompt goes into the flow state.
PickPrompt(fl, payload) == [fl EXCEPT !.prompt = payload]
\* ExampleFlow.echo_prompt: f"Subflow echoing: {self.state.prompt}".
EchoPrompt(fl) == [fl EXCEPT !.echo = <<"Subflow echoing: ">> \o fl.prompt]
\* reply = example_flow.state.echo or f"Brain captured: {self.state.message}".
ComputeReplyFromShared(fl, st) == <<"Subflow echoing: ">> \o Prompt(st)
ComputeReply(fl, st) ==
    IF fl.echo # EmptyStr THEN fl.echo ELSE <<"Brain captured: ">> \o st.message

\* if not submission.response.done(): submission.response.set_result(reply)
ResolveResultUnguarded(fut, c, reply) == [fut EXCEPT ![c] = SetResult(@, reply)]
ResolveResult(fut, c, reply) ==
    [fut EXCEPT ![c] = IF FutureDone(@) THEN @ ELSE SetResult(@, reply)]
\* if not submission.response.done(): submission.response.set_exception(exc)
ResolveExceptionAll(fut, c, exc) ==
    [d \in Calls |-> IF fut[d].st = "pending" THEN SetException(fut[d], exc) ELSE fut[d]]
ResolveException(fut, c, exc) ==
    [fut EXCEPT ![c] = IF FutureDone(@) THEN @ ELSE SetException(@, exc)]

TaskDone(c) == proc[c] \in {"done", "failed", "cancelled"}
InFlight(c) == proc[c] \in {"ready", "pipeline"}

\* _process_submission from its start to `await example_flow.kickoff_async`:
\* the two writes into self.state, set_brain_state, the ExampleFlow, the payload.
ProcessStart(c) ==
    /\ proc[c] = "ready"
    /\ state' = [state EXCEPT !.username = event[c].username,
                              !.message = event[c].message]
    /\ brain_state' = [brain_state EXCEPT ![c] = "state"]
    /\ flow' = [flow EXCEPT ![c] = PickPrompt(@, Prompt(state'))]
    /\ proc' = [proc EXCEPT ![c] = "pipeline"]
    /\ UNCHANGED <<queue, future, hostPuts, tasks, taskExc, removed, logged>>
    /\ UNCHANGED <<chatVars, brainVars, mainVars, actorVars>>
    /\ UNCHANGED libVars
    /\ UNCHANGED orderVars

\* One of the statements before the try raises: a write into self.state (the
\* mapping's put fails) or the ExampleFlow constructor. No handler is in scope,
\* so the handle is not touched and reset_brain_state does not run.
ProcessStartFail(c, step) ==
    /\ proc[c] = "ready"
    /\ state' = CASE step = "username" -> state
                  [] step = "message" -> [state EXCEPT !.username = event[c].username]
                  [] step = "construct" -> [state EXCEPT !.username = event[c].username,
                                                         !.message = event[c].message]
    /\ brain_state' = [brain_state EXCEPT ![c] = IF step = "construct" THEN "state" ELSE @]
    /\ taskExc' = [taskExc EXCEPT ![c] = IF step = "construct" THEN ExcConstruct ELSE ExcPut]
    /\ proc' = [proc EXCEPT ![c] = "failed"]
    /\ UNCHANGED <<queue, future, hostPuts, tasks, removed, flow, logged>>
    /\ UNCHANGED <<chatVars, brainVars, mainVars, actorVars>>
    /\ UNCHANGED libVars
    /\ UNCHANGED orderVars

\* kickoff_async returns: the reply is computed, stored in self.state and set
\* on the handle; the finally resets the context variable.
PipelineReturn(c) ==
    /\ proc[c] = "pipeline"
    /\ LET fl == EchoPrompt(flow[c])
           reply == ComputeReply(fl, state)
       IN  /\ flow' = [flow EXCEPT ![c] = fl]
           /\ state' = [state EXCEPT !.reply = reply]
           /\ future' = ResolveResult(future, c, reply)
    /\ brain_state' = [brain_state EXCEPT ![c] = "None"]
    /\ proc' = [proc EXCEPT ![c] = "done"]
    /\ UNCHANGED <<queue, hostPuts, tasks, taskExc, removed, logged>>
    /\ UNCHANGED <<chatVars, brainVars, mainVars, actorVars>>
    /\ UNCHANGED libVars
    /\ UNCHANGED orderVars

\* An exception inside the try: kickoff_async raises, or the pipeline returns
\* and the write of self.state.reply raises. The except sets it on the handle
\* and re-raises; the finally resets the context variable.
PipelineFail(c, at) ==
    /\ proc[c] = "pipeline"
    /\ LET exc == IF at = "kickoff" THEN ExcPipeline ELSE ExcPut
       IN  /\ future' = ResolveException(future, c, exc)
           /\ taskExc' = [taskExc EXCEPT ![c] = exc]
    /\ flow' = [flow EXCEPT ![c] = IF at = "kickoff" THEN @ ELSE EchoPrompt(@)]
    /\ brain_state' = [brain_state EXCEPT ![c] = "None"]
    /\ proc' = [proc EXCEPT ![c] = "failed"]
    /\ UNCHANGED <<queue, state, hostPuts, tasks, removed, logged>>
    /\ UNCHANGED <<chatVars, brainVars, mainVars, actorVars>>
    /\ UNCHANGED libVars
    /\ UNCHANGED orderVars

\* A callback that logs every task it removes.
RemoveLogsAlways(c) == TRUE
\* _remove: a cancelled task returns early; otherwise completed.exception()
\* is logged when it is not None.
RemoveLogs(c) == proc[c] # "cancelled" /\ proc[c] = "failed"

\* The done callback _remove of a finished task.
Remove(c) ==
    /\ TaskDone(c)
    /\ c \notin removed
    /\ tasks' = Discard(tasks, c)
    /\ removed' = removed \cup {c}
    /\ logged' = IF RemoveLogs(c) THEN logged \cup {c} ELSE logged
    /\ UNCHANGED <<queue, future, state, hostPuts, proc, taskExc, brain_state, flow>>
    /\ UNCHANGED <<chatVars, brainVars, mainVars, actorVars>>
    /\ UNCHANGED libVars
    /\ UNCHANGED orderVars

----
Top == {"brain", "inbound", "outbound"}
TopDone(t) ==
    CASE t = "brain" -> brainPc \in {"stop", "cancelled"}
      [] t = "inbound" -> inboundPc \in {"done", "failed", "cancelled"}
      [] t = "outbound" -> outboundPc = "cancelled"
\* A main that finds no exception on any task.
TopNeverFailed(t) == FALSE
\* completed.exception() is set: the task ended with an error.
TopFailed(t) == t = "inbound" /\ inboundPc = "failed"
\* A main that cancels and awaits nothing.
NothingPending == {}
\* The tasks main cancels and awaits: those not done.
NotDone == {t \in Top : ~TopDone(t)}
\* Dequeued and handed to a background task, the handle still pending.
InFlightPending == {c \in Calls : InFlight(c) /\ future[c].st = "pending"}

\* main: asyncio.wait(FIRST_COMPLETED) returns; the sentinel is put, the event
\* set and every pending task cancelled before the gather suspends.
MainFirstCompleted ==
    /\ mainPc = "wait"
    /\ \E t \in Top : TopDone(t)
    /\ done' = {t \in Top : TopDone(t)}
    /\ queue' = QueuePut(queue, None)
    /\ shutdown_event' = TRUE
    /\ cancelReq' = NotDone
    /\ mainPc' = "gather"
    /\ inFlightAtShutdown' = InFlightPending
    /\ UNCHANGED <<future, state, hostPuts, closed>>
    /\ UNCHANGED <<chatVars, brainVars, taskVars, actorVars>>
    /\ UNCHANGED libVars
    /\ puts' = Append(puts, None)
    /\ UNCHANGED handled

\* main is cancelled inside the wait: _cleanup puts the sentinel, sets the
\* event, cancels every task that is not done and gathers.
MainCancelled ==
    /\ mainPc = "wait"
    /\ queue' = QueuePut(queue, None)
    /\ shutdown_event' = TRUE
    /\ cancelReq' = NotDone
    /\ mainPc' = "cleanup"
    /\ inFlightAtShutdown' = InFlightPending
    /\ UNCHANGED <<future, state, hostPuts, closed, done>>
    /\ UNCHANGED <<chatVars, brainVars, taskVars, actorVars>>
    /\ UNCHANGED libVars
    /\ puts' = Append(puts, None)
    /\ UNCHANGED handled

\* gather(*pending, return_exceptions=True) returns; main raises the exception
\* of a task in `done`, or returns.
MainGathered ==
    /\ mainPc = "gather"
    /\ NotDone = {}
    /\ mainPc' = IF \E t \in done : TopFailed(t) THEN "raised" ELSE "returned"
    /\ UNCHANGED <<queue, future, state, hostPuts, closed, done, cancelReq, shutdown_event>>
    /\ UNCHANGED inFlightAtShutdown
    /\ UNCHANGED <<chatVars, brainVars, taskVars, actorVars>>
    /\ UNCHANGED libVars
    /\ UNCHANGED orderVars

\* _cleanup's gather returns; main returns.
MainCleanedUp ==
    /\ mainPc = "cleanup"
    /\ NotDone = {}
    /\ mainPc' = "returned"
    /\ UNCHANGED <<queue, future, state, hostPuts, closed, done, cancelReq, shutdown_event>>
    /\ UNCHANGED inFlightAtShutdown
    /\ UNCHANGED <<chatVars, brainVars, taskVars, actorVars>>
    /\ UNCHANGED libVars
    /\ UNCHANGED orderVars

\* main is cancelled while it awaits a gather (line 241, or _cleanup's at line
\* 222): the gather passes the cancellation to its children and completes, with
\* CancelledError, once all of them are done.
MainCancelledLate ==
    /\ mainPc \in {"gather", "cleanup"}
    /\ mainPc' = "cancelling"
    /\ UNCHANGED <<queue, future, state, hostPuts, closed, done, cancelReq, shutdown_event>>
    /\ UNCHANGED inFlightAtShutdown
    /\ UNCHANGED <<chatVars, brainVars, taskVars, actorVars>>
    /\ UNCHANGED libVars
    /\ UNCHANGED orderVars

\* The cancelled gather completes: CancelledError leaves main; nothing catches
\* it at line 241, nor inside the except branch at line 232.
MainCancelRaised ==
    /\ mainPc = "cancelling"
    /\ NotDone = {}
    /\ mainPc' = "cancelled"
    /\ UNCHANGED <<queue, future, state, hostPuts, closed, done, cancelReq, shutdown_event>>
    /\ UNCHANGED inFlightAtShutdown
    /\ UNCHANGED <<chatVars, brainVars, taskVars, actorVars>>
    /\ UNCHANGED libVars
    /\ UNCHANGED orderVars

\* main has returned, raised a task's exception, or ended with CancelledError.
MainOver == mainPc \in {"returned", "raised", "cancelled"}

\* kickoff: asyncio.run cancels every task still on the loop once main is over.
\* A task that never started ends cancelled without running; a task inside the
\* pipeline gets CancelledError, which the except does not catch, so only the
\* finally runs.
Teardown ==
    /\ MainOver
    /\ ~closed
    /\ closed' = TRUE
    /\ proc' = [c \in Calls |-> IF InFlight(c) THEN "cancelled" ELSE proc[c]]
    /\ brain_state' = [c \in Calls |-> IF proc[c] = "pipeline" THEN "None" ELSE brain_state[c]]
    /\ chat' = CancelHandlers(chat)
    /\ rpc' = [c \in Calls |-> IF chat'[c] # chat[c] THEN CancelledCall ELSE rpc[c]]
    /\ future' = [c \in Calls |->
                    IF chat'[c] # chat[c] THEN CancelFuture(future[c]) ELSE future[c]]
    /\ UNCHANGED <<queue, event, state, hostPuts, tasks, taskExc, removed, flow, logged>>
    /\ UNCHANGED <<mainPc, done, cancelReq, shutdown_event, inFlightAtShutdown>>
    /\ UNCHANGED <<brainVars, actorVars>>
    /\ UNCHANGED libVars
    /\ UNCHANGED orderVars

\* A holder of the queue other than main puts the ShutdownSignal.
HostPutNone ==
    /\ hostPuts < MaxHostPuts
    /\ ~closed
    /\ hostPuts' = hostPuts + 1
    /\ queue' = QueuePut(queue, None)
    /\ UNCHANGED <<future, state>>
    /\ UNCHANGED <<chatVars, brainVars, taskVars, mainVars, actorVars>>
    /\ UNCHANGED libVars
    /\ puts' = Append(puts, None)
    /\ UNCHANGED handled

----
\* A processing task calls send_chat_message while its pipeline runs: the
\* lookup reads _outbound_stub in the task's own context.
SendChatMessage(c) ==
    /\ proc[c] = "pipeline"
    /\ sendOut[c].out = "none"
    /\ sendOut' = [sendOut EXCEPT
                      ![c] = [out |-> SendOutcome(task_stub[c]), keeper |-> outboundPc]]
    /\ UNCHANGED <<queue, future, state, hostPuts, task_stub>>
    /\ UNCHANGED <<chatVars, brainVars, taskVars, mainVars, actorVars>>
    /\ UNCHANGED <<endpointVars, dbVars>>
    /\ UNCHANGED orderVars

coreVars == <<queue, future, state, hostPuts, chatVars, brainVars, taskVars,
              mainVars, actorVars, orderVars>>

----
\* configure(gestalt_endpoint)
Configure(x) ==
    /\ gestalt_endpoint_override' = ConfigureOverride(gestalt_endpoint_override, x)
    /\ configured' = x
    /\ UNCHANGED <<env_endpoint, endpoint, target>>
    /\ UNCHANGED <<coreVars, sendVars, dbVars>>

\* outbound_connection(endpoint) up to the target it connects to.
OutboundTarget(ep) ==
    /\ endpoint' = ep
    /\ target' = ResolveTarget(ep, gestalt_endpoint_override, env_endpoint)
    /\ UNCHANGED <<gestalt_endpoint_override, env_endpoint, configured>>
    /\ UNCHANGED <<coreVars, sendVars, dbVars>>

\* The endpoint settings of a process: any environment value, nothing
\* configured, no connection attempted.
EndpointInit ==
    /\ CoreInit
    /\ task_stub = [c \in Calls |-> "None"]
    /\ sendOut = [c \in Calls |-> NoSend]
    /\ gestalt_endpoint_override = Nothing
    /\ env_endpoint \in EnvValues
    /\ endpoint = Nothing
    /\ target = Nothing
    /\ configured = Nothing
    /\ db = [k \in EncodedKeys |-> Missing]
    /\ dbOut = DbNoOp
    /\ dbPrev = DbNoOp

NextEndpoint ==
    \/ \E x \in ConfigureArgs : Configure(x)
    \/ \E ep \in EndpointArgs : OutboundTarget(ep)

----
DbResult(op, k, arg, kind, val, n, keys) ==
    [op |-> op, key |-> k, arg |-> arg, kind |-> kind, val |-> val, n |-> n, keys |-> keys]

\* LmdbDict.__getitem__
DbGet(k) ==
    /\ LET val == TxnGet(db, EncodeKey(k))
       IN  dbOut' = IF val = Missing
                    THEN DbResult("get", k, "", "KeyError", "", 0, << >>)
                    ELSE DbResult("get", k, "", "value", PickleLoads(val), 0, << >>)
    /\ dbPrev' = dbOut
    /\ UNCHANGED db
    /\ UNCHANGED <<coreVars, sendVars, endpointVars>>

\* LmdbDict.__setitem__: the put succeeds and the transaction commits.
DbSet(k, v) ==
    /\ db' = TxnPut(db, EncodeKey(k), PickleDumps(v))
    /\ dbOut' = DbResult("set", k, v, "ok", "", 0, << >>)
    /\ dbPrev' = dbOut
    /\ UNCHANGED <<coreVars, sendVars, endpointVars>>

\* LmdbDict.__setitem__: the put is refused, RuntimeError("put failed") leaves
\* the `with`, and the transaction aborts.
DbSetFail(k, v) ==
    /\ dbOut' = DbResult("set", k, v, "RuntimeError", "", 0, << >>)
    /\ dbPrev' = dbOut
    /\ UNCHANGED db
    /\ UNCHANGED <<coreVars, sendVars, endpointVars>>

\* LmdbDict.__delitem__: KeyError when txn.delete finds nothing.
DbDelete(k) ==
    /\ IF TxnGet(db, EncodeKey(k)) = Missing
       THEN /\ dbOut' = DbResult("delete", k, "", "KeyError", "", 0, << >>)
            /\ UNCHANGED db
       ELSE /\ dbOut' = DbResult("delete", k, "", "ok", "", 0, << >>)
            /\ db' = TxnDelete(db, EncodeKey(k))
    /\ dbPrev' = dbOut
    /\ UNCHANGED <<coreVars, sendVars, endpointVars>>

\* list(iter(mapping)): LmdbDict.__iter__ run to its end.
DbIter ==
    /\ dbOut' = DbResult("iter", NoKey, "", "keys", "", 0, IterKeys(db))
    /\ dbPrev' = dbOut
    /\ UNCHANGED db
    /\ UNCHANGED <<coreVars, sendVars, endpointVars>>

\* len(mapping): LmdbDict.__len__
DbLen ==
    /\ dbOut' = DbResult("len", NoKey, "", LenOutcome(db), "", 0, << >>)
    /\ dbPrev' = dbOut
    /\ UNCHANGED db
    /\ UNCHANGED <<coreVars, sendVars, endpointVars>>

NextDb ==
    \/ \E k \in KeyObjects : DbGet(k)
    \/ \E k \in KeyObjects, v \in Values : DbSet(k, v)
    \/ \E k \in KeyObjects, v \in Values : DbSetFail(k, v)
    \/ \E k \in KeyObjects : DbDelete(k)
    \/ DbIter
    \/ DbLen

----
\* The state once serve_brain serves, the keeper is parked, the Brain waits on
\* the queue and main waits for the first of the three to finish.
RunInit ==
    /\ LibInit
    /\ queue = << >>
    /\ chat = [c \in Calls |-> "idle"]
    /\ event = [c \in Calls |-> [username |-> Username(c), message |-> EmptyStr]]
    /\ future = [c \in Calls |-> NoFuture]
    /\ rpc = [c \in Calls |-> NoOutcome]
    /\ server = "serving"
    /\ brainPc = "intake"
    /\ submission = None
    /\ stopCause = "none"
    /\ waited = {}
    /\ waits = 0
    /\ trackedAtSignal = {}
    /\ tasks = {}
    /\ proc = [c \in Calls |-> "none"]
    /\ taskExc = [c \in Calls |-> EmptyStr]
    /\ removed = {}
    /\ state = [username |-> EmptyStr, message |-> EmptyStr, reply |-> EmptyStr]
    /\ brain_state = [c \in Calls |-> "None"]
    /\ flow = [c \in Calls |-> [prompt |-> EmptyStr, echo |-> EmptyStr]]
    /\ mainPc = "wait"
    /\ done = {}
    /\ cancelReq = {}
    /\ inboundPc = "wait"
    /\ outboundPc = "parked"
    /\ outbound_stub = "stub"
    /\ shutdown_event = FALSE
    /\ hostPuts = 0
    /\ closed = FALSE
    /\ inFlightAtShutdown = {}
    /\ puts = << >>
    /\ handled = << >>
    /\ logged = {}
    /\ helpers = HelpersCreated

\* The steps of the running services: Chat calls, the Brain loop and its tasks.
NextRun ==
    \/ \E c \in Calls, m \in Messages : Chat(c, m)
    \/ \E c \in Calls : ChatReturn(c)
    \/ \E c \in Calls : ChatFail(c)
    \/ \E c \in Calls : ChatCancelled(c)
    \/ Intake
    \/ DrainWake
    \/ Route
    \/ Handle
    \/ \E c \in Calls : ProcessStart(c)
    \/ \E c \in Calls, step \in StartFailures : ProcessStartFail(c, step)
    \/ \E c \in Calls : PipelineReturn(c)
    \/ \E c \in Calls, at \in {"kickoff", "reply"} : PipelineFail(c, at)
    \/ \E c \in Calls : Remove(c)
    \/ HostPutNone

\* The whole program from main's start to asyncio.run's teardown.
Next ==
    \/ \E c \in ShutdownCalls, m \in Messages : Chat(c, m)
    \/ \E c \in ShutdownCalls : ChatReturn(c)
    \/ \E c \in ShutdownCalls : ChatFail(c)
    \/ \E c \in ShutdownCalls : ChatCancelled(c)
    \/ ServeStart
    \/ ServeStartFail
    \/ ServeCancelledAtStart
    \/ ServeStop
    \/ \E how \in Terminations : ServeTerminated(how)
    \/ KeeperStart
    \/ KeeperCancelled
    \/ Intake
    \/ IntakeInterrupted
    \/ DrainWake
    \/ Route
    \/ Handle
    \/ BrainCancelled
    \/ \E c \in ShutdownCalls : ProcessStart(c)
    \/ \E c \in ShutdownCalls, step \in StartFailures : ProcessStartFail(c, step)
    \/ \E c \in ShutdownCalls : PipelineReturn(c)
    \/ \E c \in ShutdownCalls, at \in {"kickoff", "reply"} : PipelineFail(c, at)
    \/ \E c \in ShutdownCalls : Remove(c)
    \/ \E c \in ShutdownCalls : SendChatMessage(c)
    \/ MainFirstCompleted
    \/ MainCancelled
    \/ MainGathered
    \/ MainCleanedUp
    \/ MainCancelledLate
    \/ MainCancelRaised
    \/ Teardown
    \/ HostPutNone

Spec == Init /\ [][Next]_vars
RunSpec == RunInit /\ [][NextRun]_vars
\* The event loop keeps running while main gathers, so the cancellation main
\* requested reaches serve_brain while it waits.
FairSpec == Spec /\ WF_vars(ServeStop)
\* Every step of a background task that can be taken is taken in the end, its
\* completion callback runs, and the drain's wait wakes up once it can.
TaskStep(c) ==
    \/ ProcessStart(c)
    \/ \E step \in StartFailures : ProcessStartFail(c, step)
    \/ PipelineReturn(c)
    \/ \E at \in {"kickoff", "reply"} : PipelineFail(c, at)
    \/ Remove(c)
DrainSpec == RunSpec /\ WF_vars(DrainWake) /\ \A c \in Calls : WF_vars(TaskStep(c))
\* The endpoint settings under any order of configure and connect calls.
EndpointSpec == EndpointInit /\ [][NextEndpoint]_vars
\* The mapping under any order of its operations.
DbSpec == Init /\ [][NextDb]_vars

----
\* The reply the pipeline computes for a message: "Subflow echoing: " followed
\* by the message, the placeholder standing in for an empty message.
ExpectedReply(m) ==
    IF m # EmptyStr THEN <<"Subflow echoing: ">> \o m
    ELSE <<"Subflow echoing: ", "No message provided">>
Ended(c) == chat[c] \in {"returned", "error", "cancelled"}
Spawned == {c \in Calls : proc[c] # "none"}

\* C1: a reply handle goes from pending to resolved at most once:
\* _process_submission never calls set_result or set_exception on a handle
\* that is already done, and a handle that is done never changes again.
C1_HandleResolvedAtMostOnce ==
    /\ [](\A c \in Calls : ~future[c].invalid)
    /\ [][\A c \in Calls : FutureDone(future[c]) => future'[c] = future[c]]_vars

\* C1 witness: one task finished and found its handle already cancelled by the
\* caller, another task finished and resolved its handle.
C1_Witness ==
    \E c, d \in Calls :
        /\ proc[c] = "done" /\ future[c].st = "cancelled"
        /\ proc[d] = "done" /\ future[d].st = "result"

\* C2: a background task that ended with an error has not left its reply
\* handle pending.
C2_FailedTaskResolvesHandle ==
    \A c \in Calls : proc[c] = "failed" => FutureDone(future[c])

C4_TaskSeesOwnState ==
    \A c \in Calls :
        (proc[c] = "pipeline" /\ brain_state[c] = "state") =>
            /\ state.username = event[c].username
            /\ state.message = event[c].message

SignalPut == hostPuts > 0 \/ shutdown_event
SignalTaken == stopCause = "sentinel"

\* C6 (as stated): once a ShutdownSignal has been put on the queue, the loop
\* spawns no further background task.
C6_NoSpawnAfterSignalPut ==
    [][SignalPut => Spawned' = Spawned]_vars

\* C6 (amended): once the loop has taken a ShutdownSignal from the queue, it
\* never enters Handle and spawns no further background task.
C6_NoSpawnAfterSignalTaken ==
    [][SignalTaken => (Spawned' = Spawned /\ brainPc' # "handle")]_vars

\* C6 witness: the loop stopped on a ShutdownSignal while a submission put
\* after it is still in the queue.
C6_Witness ==
    /\ SignalTaken
    /\ brainPc = "stop"
    /\ \E c \in Calls : InQueue(c)

\* C7: when intake returns the sentinel it took from the queue, and from then
\* on, every task spawned before has completed, its completion callback has
\* run, and the tracking set is empty.
C7_DrainedBeforeStop ==
    (SignalTaken /\ brainPc \in {"route", "stop"}) =>
        /\ tasks = {}
        /\ \A c \in Spawned : TaskDone(c) /\ c \in removed

\* C7 witness: the loop reached Stop on the sentinel after having waited for
\* tasks in the drain.
C7_Witness ==
    /\ SignalTaken
    /\ brainPc = "stop"
    /\ waits >= 1
    /\ removed # {}

Taken(c) == proc[c] # "none" \/ submission = c
PutCount(c) == Occurrences(c) + (IF Taken(c) THEN 1 ELSE 0)

\* C8: a Chat call puts exactly one submission on the queue, before it awaits
\* the handle, and a call that has ended produced exactly one outcome that
\* agrees with its handle.
C8_OnePutOneOutcome ==
    \A c \in Calls :
        /\ chat[c] = "idle" => (PutCount(c) = 0 /\ future[c].st = "none")
        /\ chat[c] # "idle" => (PutCount(c) = 1 /\ future[c].st # "none")
        /\ Ended(c) <=> rpc[c].kind # "none"
        /\ chat[c] = "returned" => (rpc[c].kind = "response" /\ future[c].st = "result")
        /\ chat[c] = "error" => (rpc[c].kind = "error" /\ future[c].st = "exception")
        /\ chat[c] = "cancelled" => rpc[c].kind = "cancelled"

\* C8 witness: one call awaits its handle with its submission on the queue,
\* another has returned its response.
C8_Witness ==
    \E c, d \in Calls :
        /\ chat[c] = "waiting" /\ InQueue(c)
        /\ chat[d] = "returned"

\* C9: the tracking set is exactly the set of tasks spawned whose completion
\* callback has not run.
C9_TrackedIffSpawnedAndNotRemoved ==
    /\ tasks = {c \in Calls : proc[c] # "none" /\ c \notin removed}
    /\ removed \subseteq {c \in Calls : TaskDone(c)}

\* C9 witness: the set holds a finished task whose callback has not run yet
\* next to a task just spawned.
C9_Witness ==
    \E c, d \in tasks :
        /\ TaskDone(c)
        /\ proc[d] = "ready"

\* C10: a task's failure reaches only its own handle and its own Chat call,
\* siblings resolve with their own reply, and the loop is not stopped by it.
C10_FailureIsolated ==
    /\ \A c \in Calls :
          /\ future[c].st = "exception" =>
                (proc[c] = "failed" /\ future[c].val = taskExc[c])
          /\ chat[c] = "error" => proc[c] = "failed"
          /\ future[c].st = "result" => future[c].val = ExpectedReply(event[c].message)
    /\ (\E c \in Calls : proc[c] = "failed") =>
          \/ brainPc \in {"intake", "route", "handle", "drain"}
          \/ brainPc = "stop" /\ stopCause # "none"
          \/ brainPc = "cancelled"

\* C10 witness: the first task failed and its callback ran; after that the
\* loop took the next submission and is handling it, and then a sibling
\* resolves with its own reply.
C10_Witness ==
    /\ NCalls >= 2
    /\ proc[1] = "failed" /\ 1 \in removed /\ future[1].st = "exception"
    /\ proc[2] = "done" /\ future[2].st = "result"
    /\ brainPc = "intake"

\* C11: a send_chat_message call that a processing task makes while the keeper
\* is parked with its connection open finds the keeper's stub: the RPC is sent,
\* the 'not available' error is not raised.
C11_TaskFindsPublishedStub ==
    \A c \in Calls :
        (sendOut[c].out # "none" /\ sendOut[c].keeper = "parked") =>
            sendOut[c].out = "sent"

\* C12: a send_chat_message call made while the keeper has no stub published
\* (not yet started, or cancelled) fails with the 'not available' error before
\* any RPC is sent, and the keeper's own binding is None outside its scope.
C12_UnavailableWithoutStub ==
    /\ \A c \in Calls :
          (sendOut[c].out # "none" /\ sendOut[c].keeper # "parked") =>
              sendOut[c].out = "unavailable"
    /\ outboundPc \in {"start", "cancelled"} => outbound_stub = "None"

\* C12 witness: a task spawned while the keeper was parked called
\* send_chat_message after the keeper's cancellation and got the error.
C12_Witness ==
    \E c \in Calls :
        /\ sendOut[c].out = "unavailable"
        /\ sendOut[c].keeper = "cancelled"
        /\ outbound_stub = "None"

\* C13: the step in which main's wait ends (first task finished, or main
\* cancelled) puts the sentinel, sets the shutdown flag and cancels every
\* top-level task that is not done; when main is over, all three top-level
\* tasks are done and no cancellation is outstanding.
C13_ShutdownAwaitsAll ==
    /\ [](MainOver =>
            /\ brainPc \in {"stop", "cancelled"}
            /\ inboundPc \in {"done", "failed", "cancelled"}
            /\ outboundPc = "cancelled"
            /\ shutdown_event
            /\ cancelReq = {}
            /\ (\E i \in 1..Len(queue) : queue[i] = None) \/ stopCause = "sentinel")
    /\ [][(mainPc = "wait" /\ mainPc' # "wait") =>
            /\ queue' = Append(queue, None)
            /\ shutdown_event'
            /\ cancelReq' = {t \in Top : ~TopDone(t)}
            /\ mainPc' \in {"gather", "cleanup"}]_vars

\* C13 witness: the Brain flow finished first; main stopped the server, cancelled
\* the keeper, awaited both and returned.
C13_Witness ==
    /\ mainPc = "returned"
    /\ done = {"brain"}
    /\ inboundPc = "done"
    /\ outboundPc = "cancelled"

\* C14 (as stated): main ends with an exception exactly when a top-level task
\* that was done when the first-completed wait returned had ended with an error.
C14_RaisesIffDoneTaskFailed ==
    MainOver => ((mainPc # "returned") <=> (\E t \in done : TopFailed(t)))

\* C14 (amended): main raises a task's exception only when that task was done
\* with an error when the wait returned, and returns normally only when no
\* such task exists; the one other way out of main is the CancelledError of a
\* cancellation that reached it while it awaited the shutdown, and the
\* external-cancellation path never raises a task's exception.
C14_RaisesDoneTaskFailureUnlessCancelled ==
    /\ mainPc = "raised" => ("inbound" \in done /\ inboundPc = "failed")
    /\ mainPc = "returned" => ~("inbound" \in done /\ inboundPc = "failed")
    /\ (MainOver /\ done = {}) => mainPc \in {"returned", "cancelled"}

\* C14 witness: serve_brain failed to start, main cancelled and awaited the
\* other two and raised serve_brain's exception.
C14_Witness ==
    /\ mainPc = "raised"
    /\ inboundPc = "failed"
    /\ brainPc = "cancelled"
    /\ outboundPc = "cancelled"

\* C15: however many sentinels are put, the loop stops on the first one it
\* takes, takes nothing from the queue after that, and stays stopped while
\* later puts only lengthen the queue.
C15_SentinelIdempotent ==
    /\ []((SignalTaken /\ brainPc \notin {"drain", "route", "cancelled"}) => brainPc = "stop")
    /\ [][SignalTaken =>
            /\ Len(queue') >= Len(queue)
            /\ SubSeq(queue', 1, Len(queue)) = queue]_vars
    /\ [][brainPc = "stop" => brainPc' = "stop"]_vars

\* C15 witness: two sentinels were put, one by the queue's holder and one by
\* main; the loop stopped on the first and the second is left in the queue.
C15_Witness ==
    /\ hostPuts = 1
    /\ shutdown_event
    /\ SignalTaken
    /\ brainPc = "stop"
    /\ MainOver
    /\ \E i \in 1..Len(queue) : queue[i] = None

\* C16: a Chat call whose wait on the handle was cancelled ends cancelled: no
\* ChatResponse, no INTERNAL status, and its handle carries a failure only if
\* its own task failed.
C16_CancellationPropagates ==
    \A c \in Calls :
        /\ chat[c] = "cancelled" =>
              /\ rpc[c].kind = "cancelled"
              /\ rpc[c].code # "INTERNAL"
              /\ future[c].st = "exception" => proc[c] = "failed"
        /\ rpc[c].kind = "cancelled" => chat[c] = "cancelled"

\* C16 witness: the server was stopped while a Chat call awaited its handle;
\* the call and its handle ended cancelled.
C16_Witness ==
    \E c \in Calls :
        /\ chat[c] = "cancelled"
        /\ future[c].st = "cancelled"
        /\ server = "stopped"

\* C17: a Chat call whose handle was resolved with a failure gives its caller
\* INTERNAL with the fixed text 'Internal server error' and nothing else.
C17_FailureGivesFixedInternalError ==
    \A c \in Calls :
        chat[c] = "error" =>
            /\ rpc[c].code = "INTERNAL"
            /\ rpc[c].text = <<"Internal server error">>

\* The first value that is defined (not None), in the order argument,
\* configure() value, environment value, default.
FirstDefined(ep, ov, env) ==
    IF ep.some THEN ep
    ELSE IF ov.some THEN ov
    ELSE IF env.some THEN env
    ELSE Some(DEFAULT_GESTALT_ENDPOINT)
\* The first non-empty value of argument and configure() value, else the
\* environment value when the variable is set (empty or not), else the default.
FirstUsable(ep, ov, env) ==
    IF ep.some /\ ep.s # "" THEN ep
    ELSE IF ov.some /\ ov.s # "" THEN ov
    ELSE IF env.some THEN env
    ELSE Some(DEFAULT_GESTALT_ENDPOINT)

\* C18 (as stated): every outbound_connection call resolves the first defined
\* value of argument, configure() value, environment value, default.
C18_TargetIsFirstDefined ==
    [][\A ep \in EndpointArgs :
          OutboundTarget(ep) =>
              target' = FirstDefined(ep, gestalt_endpoint_override, env_endpoint)]_vars

\* C18 (amended): every outbound_connection call resolves the first non-empty
\* value of argument and configure() value, else the environment value when
\* set, else the default; configure() with None or an empty string leaves the
\* stored override unchanged, so the override is never empty.
C18_TargetIsFirstUsable ==
    /\ [][\A ep \in EndpointArgs :
            OutboundTarget(ep) =>
                target' = FirstUsable(ep, gestalt_endpoint_override, env_endpoint)]_vars
    /\ [][\A x \in ConfigureArgs :
            (Configure(x) /\ (~x.some \/ x.s = "")) =>
                gestalt_endpoint_override' = gestalt_endpoint_override]_vars
    /\ [](gestalt_endpoint_override.some => gestalt_endpoint_override.s # "")

\* C18 witness: an empty endpoint argument was passed while an override was
\* configured and the environment variable set; the override was resolved.
C18_Witness ==
    /\ endpoint = Some("")
    /\ gestalt_endpoint_override = Some("cfg:1")
    /\ env_endpoint = Some("env:1")
    /\ target = Some("cfg:1")

\* C19: a get right after a successful set of the same key returns the value
\* set; a get right after a delete of the same key fails with KeyError; a
\* delete of a key that is not stored fails with KeyError and changes nothing.
C19_RoundTrip ==
    /\ [](/\ (dbOut.op = "get" /\ dbPrev.op = "set" /\ dbPrev.kind = "ok"
                /\ dbPrev.key = dbOut.key) =>
                   (dbOut.kind = "value" /\ dbOut.val = dbPrev.arg)
          /\ (dbOut.op = "get" /\ dbPrev.op = "delete" /\ dbPrev.key = dbOut.key) =>
                   dbOut.kind = "KeyError")
    /\ [][\A k \in KeyObjects :
            (DbDelete(k) /\ db[EncodeKey(k)] = Missing) =>
                (db' = db /\ dbOut'.kind = "KeyError")]_vars

\* C19 witness: with another key stored, an int key was set and read back.
C19_Witness ==
    /\ dbOut.op = "get" /\ dbOut.kind = "value"
    /\ dbPrev.op = "set" /\ dbPrev.kind = "ok"
    /\ dbPrev.key = dbOut.key
    /\ dbOut.key.kind = "int"
    /\ dbOut.val = dbPrev.arg
    /\ Cardinality(StoredKeys(db)) >= 2

\* C20: len succeeds with the number of keys stored, and iteration yields
\* exactly the stored keys, each once.
C20_LenAndIterAgreeWithStore ==
    /\ dbOut.op = "len" =>
          (dbOut.kind = "int" /\ dbOut.n = Cardinality(StoredKeys(db)))
    /\ dbOut.op = "iter" =>
          /\ Len(dbOut.keys) = Cardinality(StoredKeys(db))
          /\ {dbOut.keys[i] : i \in 1..Len(dbOut.keys)} = {Decode(k) : k \in StoredKeys(db)}

\* The items the loop has taken from the queue: the puts that are not in it.
TakenItems == SubSeq(puts, 1, Len(puts) - Len(queue))
\* The submission intake has returned and handle_submission has not yet got.
InHand ==
    IF brainPc \in {"route", "handle"} /\ submission # None THEN <<submission>> ELSE << >>
\* The submissions put before the first ShutdownSignal was put.
RECURSIVE BeforeFirstSignal(_)
BeforeFirstSignal(ps) ==
    IF ps = << >> \/ Head(ps) = None THEN << >>
    ELSE <<Head(ps)>> \o BeforeFirstSignal(Tail(ps))

\* C21: the queue holds the puts not yet taken, in the order of the puts; the
\* submissions handed to handle_submission (with the one intake has just
\* returned) are the submissions taken, in the order they were put; and when
\* the loop stops on the sentinel it has handed over every submission put
\* before the first sentinel. The spawned tasks may complete in any order.
C21_HandledInPutOrder ==
    /\ Len(queue) <= Len(puts)
    /\ queue = SubSeq(puts, Len(puts) - Len(queue) + 1, Len(puts))
    /\ brainPc # "cancelled" =>
          handled \o InHand = SelectSeq(TakenItems, LAMBDA x : x # None)
    /\ (SignalTaken /\ brainPc \in {"drain", "route", "stop"}) =>
          handled = BeforeFirstSignal(puts)

\* C21 witness: two submissions were handled in the order they were put, the
\* sentinel was taken, and the second task finished while the first still runs.
C21_Witness ==
    /\ handled = <<1, 2>>
    /\ SignalTaken
    /\ proc[2] = "done"
    /\ proc[1] = "pipeline"

\* C22: handle_submission spawns and tracks the task and the loop is back at
\* intake in the same step, before the task has run; route and handle can
\* always proceed whatever the earlier tasks are doing, and outside the drain
\* the loop waits only at intake on an empty queue.
C22_HandleDoesNotWait ==
    /\ [][(brainPc = "handle" /\ brainPc' # "handle") =>
            /\ brainPc' = "intake"
            /\ tasks' = tasks \cup {submission}
            /\ proc'[submission] = "ready"
            /\ \A c \in Calls \ {submission} : proc'[c] = proc[c]]_vars
    /\ [](brainPc = "route" => ENABLED Route)
    /\ [](brainPc = "handle" => ENABLED Handle)
    /\ []((brainPc # "stop" /\ ~ENABLED (Intake \/ DrainWake \/ Route \/ Handle)) =>
            \/ brainPc = "intake" /\ queue = << >>
            \/ brainPc = "drain")

\* C22 witness: the loop waits on the empty queue after handling two
\* submissions; the first task is inside its pipeline, the second has not run.
C22_Witness ==
    /\ brainPc = "intake"
    /\ queue = << >>
    /\ handled = <<1, 2>>
    /\ proc[1] = "pipeline"
    /\ proc[2] = "ready"

\* C23: the loop moves only intake -> route -> handle -> intake and
\* intake -> route -> stop (the drain being part of intake): route sends every
\* submission to handle and every None to stop, handle is followed by intake,
\* stop is final and is entered only from a route whose intake returned None.
C23_LoopTransitions ==
    /\ [][(brainPc' # brainPc /\ brainPc' # "cancelled") =>
            \/ brainPc = "intake" /\ brainPc' \in {"route", "drain"}
            \/ brainPc = "drain" /\ brainPc' = "route"
            \/ brainPc = "route" /\ submission # None /\ brainPc' = "handle"
            \/ brainPc = "route" /\ submission = None /\ brainPc' = "stop"
            \/ brainPc = "handle" /\ brainPc' = "intake"]_vars
    /\ [](brainPc = "handle" => submission \in Calls)
    /\ [](brainPc = "stop" => (submission = None /\ stopCause \in {"sentinel", "interrupt"}))
    /\ [](brainPc = "drain" => (submission = None /\ stopCause = "sentinel"))

\* C23 witness: the loop went round once for a submission and then stopped on
\* the sentinel while that submission's task had already finished.
C23_Witness ==
    /\ brainPc = "stop"
    /\ stopCause = "sentinel"
    /\ handled = <<1>>
    /\ proc[1] = "done"
    /\ mainPc = "wait"

\* C24: serve_brain, cancelled while it waits for termination or for the
\* shutdown flag, stops the server and ends cancelled.
C24_CancelledServeEndsCancelled ==
    [][("inbound" \in cancelReq /\ inboundPc = "wait" /\ inboundPc' # "wait") =>
          /\ server' = "stopped"
          /\ inboundPc' = "cancelled"]_vars

\* C25: main, cancelled while it waits for the first top-level task, performs
\* the shutdown and ends with the cancellation, not with a normal return.
C25_CancelledMainPropagates ==
    (MainOver /\ done = {}) =>
        /\ shutdown_event
        /\ NotDone = {}
        /\ mainPc = "cancelled"

\* C26: a processing task that ended cancelled has set neither a result nor an
\* exception on its reply handle, its BrainState binding is back to None, it
\* carries no exception, and its completion callback removes it from the
\* tracking set without logging an error.
C26_CancelledTaskNotFailed ==
    \A c \in Calls :
        proc[c] = "cancelled" =>
            /\ future[c].st \notin {"result", "exception"}
            /\ ~future[c].invalid
            /\ brain_state[c] = "None"
            /\ taskExc[c] = EmptyStr
            /\ c \notin logged
            /\ c \in removed => c \notin tasks

\* C26 witness: a task cancelled inside its pipeline has been removed from the
\* tracking set by its callback, with nothing logged.
C26_Witness ==
    \E c \in Calls :
        /\ proc[c] = "cancelled"
        /\ flow[c].prompt # EmptyStr
        /\ c \in removed
        /\ tasks = {}
        /\ logged = {}

\* C27: however a processing task ends once it has published BrainState
\* (return, error at any later step, cancellation), its BrainState binding is
\* back to what it was before the set.
C27_StateBindingRestored ==
    \A c \in Calls : TaskDone(c) => brain_state[c] = "None"

\* C28: _await_pending_tasks returns only when the tracking set is empty; each
\* time it suspends again it waits on the set's members at that moment; called
\* on an empty set it returns without suspending; and when every tracked task
\* completes, it returns.
C28_DrainReturnsOnEmptySet ==
    /\ [][(brainPc \in {"intake", "drain"} /\ brainPc' = "route"
             /\ stopCause' = "sentinel") => tasks' = {}]_vars
    /\ [][waits' # waits =>
            /\ waits' = waits + 1
            /\ brainPc' = "drain"
            /\ tasks # {}
            /\ waited' = tasks]_vars
    /\ [][(brainPc = "intake" /\ stopCause' = "sentinel" /\ tasks = {}) =>
            (brainPc' = "route" /\ waits' = waits)]_vars
    /\ (brainPc = "drain") ~> (brainPc = "route" /\ tasks = {})

\* C28 witness: the drain suspended once on two tasks and returned after both
\* had completed and been removed.
C28_Witness ==
    /\ brainPc = "route"
    /\ SignalTaken
    /\ waits = 1
    /\ removed = {1, 2}
    /\ tasks = {}

\* C29: whenever serve_brain has finished, the server is not serving any more
\* and neither of the helper tasks it created is still pending.
C29_ServerStoppedWhenServeEnds ==
    inboundPc \in {"done", "failed", "cancelled"} =>
        /\ server # "serving"
        /\ helpers.termination # "pending"
        /\ helpers.shutdown_task # "pending"

\* C30: when main is over, every background task the loop had spawned has
\* completed and the tracking set is empty.
C30_TasksDrainedWhenMainEnds ==
    MainOver =>
        /\ tasks = {}
        /\ \A c \in Spawned : TaskDone(c)

\* C31: while _await_pending_tasks drains, no task is spawned and the tracking
\* set only shrinks, within the set tracked when the sentinel was taken; the
\* number of waits never exceeds the number of tasks tracked at that moment.
C31_DrainOnlyShrinks ==
    /\ [][brainPc = "drain" =>
            /\ tasks' \subseteq tasks
            /\ Spawned' = Spawned
            /\ handled' = handled]_vars
    /\ [](brainPc = "drain" => (tasks \subseteq trackedAtSignal /\ waited \subseteq trackedAtSignal))
    /\ [](waits <= Cardinality(trackedAtSignal))
    /\ [](~SignalTaken => (waits = 0 /\ trackedAtSignal = {}))

\* C31 witness: the drain began with two tasks tracked, one of them has
\* completed and been removed, and the loop is still in its first wait.
C31_Witness ==
    /\ brainPc = "drain"
    /\ trackedAtSignal = {1, 2}
    /\ tasks = {2}
    /\ waits = 1

\* Some task has been spawned, none is in flight, and each returned normally.
AllTasksReturned ==
    /\ Spawned # {}
    /\ \A c \in Spawned : proc[c] = "done"

\* C32: when no background task is in flight (here: every spawned task has
\* returned), the shared BrainState is the record of one submission: its
\* username, its message and the reply computed for that message.
C32_SharedStateConsistent ==
    AllTasksReturned =>
        \E c \in Spawned :
            /\ state.username = event[c].username
            /\ state.message = event[c].message
            /\ state.reply = ExpectedReply(event[c].message)

====
